---------------------------- MODULE Spec2Model ----------------------------
(***************************************************************************)
(* The lazy sequence toolkit of features_tutorial/motivation.py:           *)
(*   pairwise (tee + stagger + izip), contiguous, to_ranges,               *)
(*   powerset and all_permutations, the word finder, the three             *)
(*   definitions of find, and the context managers of the same file        *)
(*   (capture_print, localecontext, connection / cursor / table).          *)
(* Every next() on an iterator is one step of the model, so that the       *)
(* position of every cursor and of every generator is part of the state.   *)
(* The code is Python 2: a StopIteration that escapes from the body of a   *)
(* generator ends that generator; one that escapes from a plain function   *)
(* is an exception its caller sees.                                        *)
(***************************************************************************)
EXTENDS Integers, Sequences, FiniteSets, TLC

VARIABLES
    mode,      \* the top-level call that is driven: see Modes
    src,       \* the finite source handed to pairwise / to_ranges
    n,         \* the window size handed to pairwise
    cur,       \* tee: cur[c] = number of elements cursor c has yielded
    srcPos,    \* tee: number of elements pulled from the underlying source
    srcPulls,  \* number of next() calls made on the underlying source
    i,         \* pairwise: index of the cursor being staggered
    k,         \* pairwise: advances already done on cursor i
    win,       \* izip: the tuple being assembled
    out,       \* the windows the consumer of pairwise has received
    buffer,    \* contiguous: its local list
    x,         \* contiguous: loop target x
    y,         \* contiguous: loop target y
    bound,     \* contiguous: TRUE once the loop has bound x and y
    runs,      \* the runs contiguous has yielded
    tokens,    \* the tokens to_ranges has yielded
    items,     \* powerset / all_permutations: the input, then list(input)
    r,         \* powerset / all_permutations: the size being enumerated
    indices,   \* combinations / permutations: the index list
    cycles,    \* permutations: the cycles list
    eout,      \* the tuples the enumerator has yielded
    pc,        \* control position
    err,       \* the exception the top-level caller has seen, or "none"
    got,       \* tee demonstration: got[c] = what the reader of cursor c received
    ended,     \* tee demonstration: ended[c] = cursor c has signalled its end
    feed,      \* enumerators: the elements of the input object
    single,    \* enumerators: the input object is a single-pass generator
    spent,     \* enumerators: the input object has been traversed
    calls,     \* enumerators: calls made so far on the same input object
    first,     \* enumerators: the tuples the previous call yielded
    dict,      \* word finder: the dictionary
    cands,     \* word finder: the set the comprehension is building
    result,    \* word finder: the set of valid words
    finds,     \* find: finds[v] = what the v-th definition of find gave
    stops,     \* pulls made on the top-level sequence after it signalled its end
    thrown,    \* the exception a stage has raised, whoever sees it, or "none"
    conn,      \* with: the sqlite3 connection
    cursor,    \* with: the cursor of the connection
    table,     \* with: the table employees of example.db
    locale,    \* with: the process-wide locale, <<LC_CTYPE, the other categories>>
    sysout,    \* with: <<sys.stdout, sys.stderr>>
    wanted,    \* with: the arguments of localecontext / capture_print
    old,       \* with: the local old of localecontext / capture_print
    pending    \* with: the exception that is travelling through the exits

vars == <<mode, src, n, cur, srcPos, srcPulls, i, k, win, out, buffer, x, y,
          bound, runs, tokens, items, r, indices, cycles, eout, pc, err,
          got, ended, feed, single, spent, calls, first, dict, cands, result,
          finds, stops, thrown, conn, cursor, table, locale, sysout, wanted, old,
          pending>>

winVars  == <<cur, srcPos, srcPulls, i, k, win, out>>
runVars  == <<buffer, x, y, bound, runs, tokens, thrown>>
enumVars == <<items, r, indices, cycles, eout>>
teeVars  == <<got, ended, stops>>
callVars == <<feed, single, spent, calls, first>>
wordVars == <<dict, cands, result, finds>>
ctxVars  == <<conn, cursor, table, locale, sysout, wanted, old, pending>>
dbVars   == <<conn, cursor, table>>
envVars  == <<locale, sysout, wanted, old>>
seqVars  == <<src, n, cur, srcPos, srcPulls, i, k, win, out, buffer, x, y,
              bound, runs, tokens, items, r, indices, cycles, eout, got, ended,
              feed, single, spent, calls, first, dict, cands, result, finds,
              stops, thrown>>

-----------------------------------------------------------------------------
(* Bounds of the model *)

MaxLen == 3        \* longest enumerated source
MaxVal == 4        \* enumerated source elements are 0..MaxVal
MaxN == 3          \* largest window size
MaxItems == 3      \* longest enumerated input of the enumerators
MaxEnds == 2       \* pulls watched on a cursor that has already ended
MaxCalls == 2      \* calls of an enumerator on one input object
MaxStr == 8        \* longest enumerated string handed to find

PairN == 2         \* the window size contiguous asks for
FindN == 7         \* the window size find asks for

Values == 0..MaxVal
Letters == {"a", "b", "c", "d"}

SeqsUpTo(S, m) == UNION {[1..l -> S] : l \in 0..m}

\* the sorted list of the examples of the tutorial, and one with negatives
ExampleSrc == <<1, 2, 3, 5, 10, 11, 12, 17>>
NegativeSrc == <<-12, -11, -10, -3, 9, 10>>

Sources == SeqsUpTo(Values, MaxLen) \cup {ExampleSrc, NegativeSrc}

\* (x for x in xrange(l)), the single-pass sources of the tee demonstration
XRange(l) == [j \in 1..l |-> j - 1]
TeeSources == {XRange(l) : l \in 0..MaxLen}
Inputs == SeqsUpTo(Letters, MaxItems)

\* the word finder: letter bags over two letters, every dictionary over a
\* few words, the fallback dictionary of the tutorial, and one longer bag
WordLetters == {"a", "b"}
WordUniverse == {"", "a", "aa", "ab", "abc"}
DefaultDict == {"a", "apple", "b", "ball", "c", "cat", "d", "dog"}
AppleLetters == <<"a", "p", "p", "l", "e">>
AppleDict == {"apple", "ape", "pale", "leap", "apples"}
WordGames ==
    (SeqsUpTo(WordLetters, MaxItems) \X ((SUBSET WordUniverse) \cup {DefaultDict}))
      \cup {<<AppleLetters, AppleDict>>}

\* the strings handed to find: every string of one lowercase and one
\* uppercase letter, the string of the tutorial, and windows with digits
LowerChars == {"a", "d", "e", "f", "h", "j", "k", "l", "o", "q", "s", "w"}
UpperChars == {"B", "D", "J", "K", "N"}
FindChars == {"a", "B"}
TutorialString ==
    <<"j", "f", "j", "h", "e", "N", "e", "K", "d", "l", "w", "o", "q", "j",
      "a", "s", "J", "j", "a", "s", "j", "D", "f", "k">>
DigitStrings == {<<"a", "1", "a", "B", "a", "2", "a">>,
                 <<"1", "a", "a", "B", "a", "a", "a", "B">>,
                 <<"a", "a", "a", "1", "a", "a", "a">>}
FindInputs == SeqsUpTo(FindChars, MaxStr) \cup {TutorialString} \cup DigitStrings

Modes == {"pairwise", "to_ranges", "powerset", "all_permutations", "tee",
          "word_finder", "with_db", "with_locale", "with_capture", "find"}

\* the top-level calls that are a with statement
WithModes == {"with_db", "with_locale", "with_capture"}

\* locale names, as setlocale normalizes them and getlocale gives them back
LocaleNames == {"C", "en_US.UTF-8", "en_GB.UTF-8"}

\* the streams of the process, a redirection already in force, the buffer
Streams == {<<"stdout", "stderr">>, <<"outer", "outer">>}
Buffers == {<<"buf", "buf">>}

\* the top-level calls that run all_permutations
PermModes == {"all_permutations", "word_finder"}

\* ''.join(x): the strings of x, concatenated
RECURSIVE Join(_)
Join(tuple) == IF tuple = <<>> THEN "" ELSE Head(tuple) \o Join(Tail(tuple))

-----------------------------------------------------------------------------
(* itertools.tee: n cursors over one single-pass source *)

\* tee(iterable, n): n cursors, none advanced
TeeInit(m) == [c \in 0..(m - 1) |-> 0]

\* a "tee" that hands out the one source iterator n times: every pull
\* advances the source itself
TeeNextAliased(c) ==
    IF srcPos < Len(src)
      THEN [ok |-> TRUE, val |-> src[srcPos + 1],
            cur |-> [cur EXCEPT ![c] = @ + 1],
            srcPos |-> srcPos + 1, srcPulls |-> srcPulls + 1]
      ELSE [ok |-> FALSE, val |-> 0, cur |-> cur,
            srcPos |-> srcPos, srcPulls |-> srcPulls + 1]

\* next(it) on cursor c: an element that another cursor already pulled comes
\* from the shared buffer; otherwise the underlying source is pulled, and
\* its StopIteration is passed on.
TeeNext(c) ==
    IF cur[c] < srcPos
      THEN [ok |-> TRUE, val |-> src[cur[c] + 1],
            cur |-> [cur EXCEPT ![c] = @ + 1],
            srcPos |-> srcPos, srcPulls |-> srcPulls]
      ELSE IF srcPos < Len(src)
        THEN [ok |-> TRUE, val |-> src[srcPos + 1],
              cur |-> [cur EXCEPT ![c] = @ + 1],
              srcPos |-> srcPos + 1, srcPulls |-> srcPulls + 1]
        ELSE [ok |-> FALSE, val |-> 0, cur |-> cur,
              srcPos |-> srcPos, srcPulls |-> srcPulls + 1]

\* gen1, gen2 = tee(gen, 2): the cursors are handed to readers
TeeCall ==
    /\ pc = "call"
    /\ mode = "tee"
    /\ cur' = TeeInit(n)
    /\ got' = [c \in 0..(n - 1) |-> <<>>]
    /\ ended' = [c \in 0..(n - 1) |-> 0]
    /\ pc' = "readers"
    /\ UNCHANGED <<mode, src, n, err, srcPos, srcPulls, i, k, win, out, stops>>
    /\ UNCHANGED runVars
    /\ UNCHANGED enumVars
    /\ UNCHANGED callVars
    /\ UNCHANGED wordVars
    /\ UNCHANGED ctxVars

\* one next() of the reader of cursor c (a step of list(gen1), of
\* list(gen2), or of a reader that stops part-way), in any order among
\* the cursors; a cursor that has ended can be pulled again
ReaderNext(c) ==
    /\ pc = "readers"
    /\ mode = "tee"
    /\ ended[c] < MaxEnds
    /\ LET res == TeeNext(c) IN
         /\ cur' = res.cur
         /\ srcPos' = res.srcPos
         /\ srcPulls' = res.srcPulls
         /\ IF res.ok
              THEN /\ got' = [got EXCEPT ![c] = Append(@, res.val)]
                   /\ ended' = ended
              ELSE /\ got' = got
                   /\ ended' = [ended EXCEPT ![c] = @ + 1]
    /\ UNCHANGED <<mode, src, n, err, pc, i, k, win, out, stops>>
    /\ UNCHANGED runVars
    /\ UNCHANGED enumVars
    /\ UNCHANGED callVars
    /\ UNCHANGED wordVars
    /\ UNCHANGED ctxVars

-----------------------------------------------------------------------------
(* pairwise *)

\* a stagger loop that advances cursor i twice as far
StaggerCountDouble(c) == c + c

\* a stagger loop that advances no cursor
StaggerCountNone(c) == 0

\* xrange(i): the number of advances cursor i gets
StaggerCount(c) == c

\* iterables = tee(iterable, n): tee refuses a negative n with ValueError
\* and returns the empty tuple for n = 0
Tee ==
    /\ pc = "call"
    /\ mode \in {"pairwise", "to_ranges"}
    /\ IF n < 0
         THEN /\ cur' = cur
              /\ pc' = "raised"
              /\ err' = "ValueError"
              /\ thrown' = "ValueError"
         ELSE /\ cur' = TeeInit(n)
              /\ pc' = "stagger"
              /\ err' = err
              /\ thrown' = thrown
    /\ i' = 0
    /\ k' = 0
    /\ UNCHANGED <<mode, src, n, srcPos, srcPulls, win, out>>
    /\ UNCHANGED <<buffer, x, y, bound, runs, tokens>>
    /\ UNCHANGED enumVars
    /\ UNCHANGED teeVars
    /\ UNCHANGED callVars
    /\ UNCHANGED wordVars
    /\ UNCHANGED ctxVars

\* next(it) inside the stagger loop. pairwise is a plain function: a
\* StopIteration of next(it) leaves it as an exception. contiguous calls
\* pairwise from its generator body, where that StopIteration ends the
\* generator (and with it the for loop of to_ranges) without any run.
StaggerAdvance ==
    /\ pc = "stagger"
    /\ i < n
    /\ k < StaggerCount(i)
    /\ LET res == TeeNext(i) IN
         /\ cur' = res.cur
         /\ srcPos' = res.srcPos
         /\ srcPulls' = res.srcPulls
         /\ IF res.ok
              THEN /\ k' = k + 1
                   /\ UNCHANGED <<pc, err, thrown>>
              ELSE /\ k' = k
                   /\ thrown' = "StopIteration"
                   /\ IF mode = "pairwise"
                        THEN pc' = "raised" /\ err' = "StopIteration"
                        ELSE pc' = "done" /\ err' = err
    /\ UNCHANGED <<mode, src, n, i, win, out>>
    /\ UNCHANGED <<buffer, x, y, bound, runs, tokens>>
    /\ UNCHANGED enumVars
    /\ UNCHANGED teeVars
    /\ UNCHANGED callVars
    /\ UNCHANGED wordVars
    /\ UNCHANGED ctxVars

\* the inner loop over xrange(i) is over: enumerate gives the next cursor
StaggerNextCursor ==
    /\ pc = "stagger"
    /\ i < n
    /\ k >= StaggerCount(i)
    /\ i' = i + 1
    /\ k' = 0
    /\ UNCHANGED <<mode, src, n, cur, srcPos, srcPulls, win, out, pc, err>>
    /\ UNCHANGED runVars
    /\ UNCHANGED enumVars
    /\ UNCHANGED teeVars
    /\ UNCHANGED callVars
    /\ UNCHANGED wordVars
    /\ UNCHANGED ctxVars

\* return izip(*iterables)
StaggerReturn ==
    /\ pc = "stagger"
    /\ i >= n
    /\ win' = <<>>
    /\ pc' = "zip"
    /\ UNCHANGED <<mode, src, n, cur, srcPos, srcPulls, i, k, out, err>>
    /\ UNCHANGED runVars
    /\ UNCHANGED enumVars
    /\ UNCHANGED teeVars
    /\ UNCHANGED callVars
    /\ UNCHANGED wordVars
    /\ UNCHANGED ctxVars

\* izip.next(): one next() on the cursor whose turn it is. The first
\* StopIteration ends the zip: the consumer of pairwise is done, the for
\* loop of contiguous falls through to its last statement.
ZipPull ==
    /\ pc = "zip"
    /\ Len(win) < n
    /\ LET res == TeeNext(Len(win)) IN
         /\ cur' = res.cur
         /\ srcPos' = res.srcPos
         /\ srcPulls' = res.srcPulls
         /\ IF res.ok
              THEN /\ win' = Append(win, res.val)
                   /\ pc' = pc
              ELSE /\ win' = <<>>
                   /\ pc' = IF mode = "pairwise" THEN "done" ELSE "tail"
    /\ UNCHANGED <<mode, src, n, i, k, out, err>>
    /\ UNCHANGED runVars
    /\ UNCHANGED enumVars
    /\ UNCHANGED teeVars
    /\ UNCHANGED callVars
    /\ UNCHANGED wordVars
    /\ UNCHANGED ctxVars

\* izip.next() of an izip over no iterable at all: StopIteration at once
ZipEmpty ==
    /\ pc = "zip"
    /\ n = 0
    /\ pc' = IF mode = "pairwise" THEN "done" ELSE "tail"
    /\ UNCHANGED <<mode, src, n, err>>
    /\ UNCHANGED winVars
    /\ UNCHANGED runVars
    /\ UNCHANGED enumVars
    /\ UNCHANGED teeVars
    /\ UNCHANGED callVars
    /\ UNCHANGED wordVars
    /\ UNCHANGED ctxVars

\* izip.next() returns the assembled tuple: the consumer of pairwise
\* receives it, the for loop of contiguous binds x, y to it
ZipYield ==
    /\ pc = "zip"
    /\ n > 0
    /\ Len(win) = n
    /\ win' = <<>>
    /\ IF mode = "pairwise"
         THEN /\ out' = Append(out, win)
              /\ UNCHANGED <<x, y, bound, pc>>
         ELSE /\ x' = win[1]
              /\ y' = win[2]
              /\ bound' = TRUE
              /\ pc' = "body"
              /\ out' = out
    /\ UNCHANGED <<mode, src, n, cur, srcPos, srcPulls, i, k, err>>
    /\ UNCHANGED <<buffer, runs, tokens, thrown>>
    /\ UNCHANGED enumVars
    /\ UNCHANGED teeVars
    /\ UNCHANGED callVars
    /\ UNCHANGED wordVars
    /\ UNCHANGED ctxVars

-----------------------------------------------------------------------------
(* contiguous and to_ranges *)

\* a jump test that lets a gap of one missing number pass
IsJumpWide(a, b) == (b - a) > 2

\* if (y-x) > 1
IsJump(a, b) == (b - a) > 1

DigitChars == <<"0", "1", "2", "3", "4", "5", "6", "7", "8", "9">>

RECURSIVE Digits(_)
Digits(v) ==
    IF v < 10 THEN <<DigitChars[v + 1]>>
              ELSE Digits(v \div 10) \o <<DigitChars[(v % 10) + 1]>>

\* '%d' % v, as the sequence of its characters
FormatD(v) == IF v < 0 THEN <<"-">> \o Digits(0 - v) ELSE Digits(v)

\* a format that takes subset[1] for the end of the range
FormatRunSecond(subset) ==
    IF Len(subset) = 1
      THEN FormatD(subset[1])
      ELSE FormatD(subset[1]) \o <<"-">> \o FormatD(subset[2])

\* '%d' % subset[0] if len(subset) == 1 else '%d-%d' % (subset[0], subset[-1])
FormatRun(subset) ==
    IF Len(subset) = 1
      THEN FormatD(subset[1])
      ELSE FormatD(subset[1]) \o <<"-">> \o FormatD(subset[Len(subset)])

\* a last yield that forgets the final element
LeftOverDropsLast(buf, last) == buf

\* buffer + [y]
LeftOver(buf, last) == Append(buf, last)

\* buffer.append(x); if (y-x) > 1: yield buffer
ContigBody ==
    /\ pc = "body"
    /\ buffer' = Append(buffer, x)
    /\ IF IsJump(x, y)
         THEN /\ runs' = Append(runs, Append(buffer, x))
              /\ pc' = "yielded"
         ELSE /\ runs' = runs
              /\ pc' = "zip"
    /\ UNCHANGED <<mode, src, n, err, x, y, bound, tokens, thrown>>
    /\ UNCHANGED winVars
    /\ UNCHANGED enumVars
    /\ UNCHANGED teeVars
    /\ UNCHANGED callVars
    /\ UNCHANGED wordVars
    /\ UNCHANGED ctxVars

\* yield buffer + [y], after the loop: y is a local that only the loop
\* binds, so without any pair its read raises UnboundLocalError
ContigTail ==
    /\ pc = "tail"
    /\ IF bound
         THEN /\ runs' = Append(runs, LeftOver(buffer, y))
              /\ pc' = "yieldedlast"
              /\ err' = err
              /\ thrown' = thrown
         ELSE /\ runs' = runs
              /\ pc' = "raised"
              /\ err' = "UnboundLocalError"
              /\ thrown' = "UnboundLocalError"
    /\ UNCHANGED <<mode, src, n, buffer, x, y, bound, tokens>>
    /\ UNCHANGED winVars
    /\ UNCHANGED enumVars
    /\ UNCHANGED teeVars
    /\ UNCHANGED callVars
    /\ UNCHANGED wordVars
    /\ UNCHANGED ctxVars

\* to_ranges: the body of its for loop yields the token of the run it was
\* given; its next pull resumes contiguous after the yield (buffer = [])
ToRangesYield ==
    /\ pc \in {"yielded", "yieldedlast"}
    /\ tokens' = Append(tokens, FormatRun(runs[Len(runs)]))
    /\ IF pc = "yielded"
         THEN buffer' = <<>> /\ pc' = "zip"
         ELSE buffer' = buffer /\ pc' = "done"
    /\ UNCHANGED <<mode, src, n, err, x, y, bound, runs, thrown>>
    /\ UNCHANGED winVars
    /\ UNCHANGED enumVars
    /\ UNCHANGED teeVars
    /\ UNCHANGED callVars
    /\ UNCHANGED wordVars
    /\ UNCHANGED ctxVars

\* a generator that starts over when it is pulled after its end
AfterEndRestart(m) == IF m = "pairwise" THEN "zip" ELSE "call"

\* where a pull on an ended sequence takes control: izip.next() asks its
\* cursors again, in index order; a generator that has finished has no
\* frame left to resume
AfterEnd(m) == IF m = "pairwise" THEN "zip" ELSE "done"

\* next() on the output of pairwise or of to_ranges after it has
\* signalled its end (the second list(...) of the exhaustion examples)
PullEnded ==
    /\ pc = "done"
    /\ mode \in {"pairwise", "to_ranges"}
    /\ stops < MaxEnds
    /\ stops' = stops + 1
    /\ pc' = AfterEnd(mode)
    /\ UNCHANGED <<mode, src, n, err, got, ended>>
    /\ UNCHANGED winVars
    /\ UNCHANGED runVars
    /\ UNCHANGED enumVars
    /\ UNCHANGED callVars
    /\ UNCHANGED wordVars
    /\ UNCHANGED ctxVars

-----------------------------------------------------------------------------
(* itertools.combinations and itertools.permutations, one yield per step.  *)
(* indices and cycles hold the 0-based positions of the library's          *)
(* algorithm; the sequences that hold them are 1-based.                    *)

\* tuple(pool[i] for i in indices)
Pick(pool, idx) == [m \in 1..Len(idx) |-> pool[idx[m] + 1]]

\* combinations: indices = range(r)
CombInit(size) == [m \in 1..size |-> m - 1]

\* a pivot search from the left
CombPivotLeftmost(idx, L, size) ==
    LET free == {m \in 1..size : idx[m] # (m - 1) + L - size}
    IN  IF free = {} THEN 0 ELSE CHOOSE m \in free : \A q \in free : m <= q

\* combinations: the rightmost position whose index is not yet at its
\* largest value (indices[i] != i + n - r), 0 when there is none
CombPivot(idx, L, size) ==
    LET free == {m \in 1..size : idx[m] # (m - 1) + L - size}
    IN  IF free = {} THEN 0 ELSE CHOOSE m \in free : \A q \in free : q <= m

\* combinations: indices[i] += 1, and every later index one more than its
\* left neighbour
CombAdvance(idx, p) ==
    [m \in 1..Len(idx) |-> IF m < p THEN idx[m] ELSE idx[p] + 1 + (m - p)]

\* an index list that starts reversed
PermInitReversed(L) == [m \in 1..L |-> L - m]

\* permutations: indices = range(n)
PermInit(L) == [m \in 1..L |-> m - 1]

\* permutations: cycles = range(n, n-r, -1)
CyclesInit(L, size) == [m \in 1..size |-> L - (m - 1)]

\* permutations: indices[i:] = indices[i+1:] + indices[i:i+1]
Rotate(ind, p) ==
    SubSeq(ind, 1, p - 1) \o SubSeq(ind, p + 1, Len(ind)) \o <<ind[p]>>

\* a swap that counts j from the front of the list
SwapFront(ind, p, j) == [ind EXCEPT ![p] = ind[j], ![j] = ind[p]]

\* permutations: indices[i], indices[-j] = indices[-j], indices[i]
Swap(ind, p, j) ==
    [ind EXCEPT ![p] = ind[Len(ind) - j + 1], ![Len(ind) - j + 1] = ind[p]]

\* permutations: one pass of "for i in reversed(range(r))", from position p
\* down; done when the loop ends without a yield
RECURSIVE PermStep(_, _, _)
PermStep(ind, cyc, p) ==
    IF p = 0
      THEN [done |-> TRUE, indices |-> ind, cycles |-> cyc]
      ELSE IF cyc[p] - 1 = 0
        THEN PermStep(Rotate(ind, p),
                      [cyc EXCEPT ![p] = Len(ind) - (p - 1)], p - 1)
        ELSE [done |-> FALSE, indices |-> Swap(ind, p, cyc[p] - 1),
              cycles |-> [cyc EXCEPT ![p] = @ - 1]]

\* xrange(1, len(iterable))
LastSizeShort(L) == L - 1

\* xrange(1, len(iterable)+1): its first and its last value
FirstSize == 1
LastSize(L) == L

\* the elements of s without the repetitions of earlier ones
RECURSIVE FirstOccurrences(_)
FirstOccurrences(s) ==
    IF s = <<>> THEN <<>>
    ELSE LET front == SubSeq(s, 1, Len(s) - 1)
         IN  IF \E j \in 1..Len(front) : front[j] = s[Len(s)]
               THEN FirstOccurrences(front)
               ELSE Append(FirstOccurrences(front), s[Len(s)])

\* a materialization that keeps one element per value
TraversalByValue(elems, onepass, used) ==
    FirstOccurrences(IF onepass /\ used THEN <<>> ELSE elems)

\* an input object that delivers nothing once it has been traversed,
\* whatever its kind
TraversalOnce(elems, onepass, used) == IF used THEN <<>> ELSE elems

\* a single-pass input whose elements are already gone when list() runs
TraversalLost(elems, onepass, used) == IF onepass THEN <<>> ELSE elems

\* list(iterable): a list, tuple or string delivers its elements at every
\* traversal, a generator delivers them once and nothing afterwards
Traversal(elems, onepass, used) ==
    IF onepass /\ used THEN <<>> ELSE elems

\* powerset: iterable = list(iterable), and the first r of the loop
PowersetCall ==
    /\ pc = "call"
    /\ mode = "powerset"
    /\ items' = Traversal(feed, single, spent)
    /\ spent' = TRUE
    /\ calls' = calls + 1
    /\ r' = FirstSize
    /\ pc' = IF FirstSize > LastSize(Len(items')) THEN "done" ELSE "first"
    /\ UNCHANGED <<mode, src, n, err, indices, cycles, eout>>
    /\ UNCHANGED <<feed, single, first>>
    /\ UNCHANGED winVars
    /\ UNCHANGED runVars
    /\ UNCHANGED teeVars
    /\ UNCHANGED wordVars
    /\ UNCHANGED ctxVars

\* combinations(iterable, r): its first yield, passed on by powerset
CombFirst ==
    /\ pc = "first"
    /\ mode = "powerset"
    /\ indices' = CombInit(r)
    /\ eout' = Append(eout, Pick(items, CombInit(r)))
    /\ pc' = "next"
    /\ UNCHANGED <<mode, src, n, err, items, r, cycles>>
    /\ UNCHANGED winVars
    /\ UNCHANGED runVars
    /\ UNCHANGED teeVars
    /\ UNCHANGED callVars
    /\ UNCHANGED wordVars
    /\ UNCHANGED ctxVars

\* combinations(iterable, r): a later yield, or its end, on which the
\* loop of powerset takes the next r or ends
CombNext ==
    /\ pc = "next"
    /\ mode = "powerset"
    /\ LET p == CombPivot(indices, Len(items), r) IN
         IF p = 0
           THEN /\ r' = r + 1
                /\ pc' = IF r + 1 > LastSize(Len(items)) THEN "done" ELSE "first"
                /\ UNCHANGED <<indices, eout>>
           ELSE /\ indices' = CombAdvance(indices, p)
                /\ eout' = Append(eout, Pick(items, CombAdvance(indices, p)))
                /\ UNCHANGED <<r, pc>>
    /\ UNCHANGED <<mode, src, n, err, items, cycles>>
    /\ UNCHANGED winVars
    /\ UNCHANGED runVars
    /\ UNCHANGED teeVars
    /\ UNCHANGED callVars
    /\ UNCHANGED wordVars
    /\ UNCHANGED ctxVars

\* where control is after a yield of all_permutations: with its caller
\* until the next pull; in the word finder the set comprehension takes
\* the tuple first
AfterYield == IF mode = "word_finder" THEN "collect" ELSE "next"

\* all_permutations: iterable = list(iterable), and the first r of the loop
AllPermutationsCall ==
    /\ pc = "call"
    /\ mode \in PermModes
    /\ items' = Traversal(feed, single, spent)
    /\ spent' = TRUE
    /\ calls' = calls + 1
    /\ r' = FirstSize
    /\ pc' = IF FirstSize > LastSize(Len(items')) THEN "done" ELSE "first"
    /\ UNCHANGED <<mode, src, n, err, indices, cycles, eout>>
    /\ UNCHANGED <<feed, single, first>>
    /\ UNCHANGED winVars
    /\ UNCHANGED runVars
    /\ UNCHANGED teeVars
    /\ UNCHANGED wordVars
    /\ UNCHANGED ctxVars

\* permutations(iterable, r): its first yield, passed on by all_permutations
PermFirst ==
    /\ pc = "first"
    /\ mode \in PermModes
    /\ indices' = PermInit(Len(items))
    /\ cycles' = CyclesInit(Len(items), r)
    /\ eout' = Append(eout, Pick(items, SubSeq(PermInit(Len(items)), 1, r)))
    /\ pc' = AfterYield
    /\ UNCHANGED <<mode, src, n, err, items, r>>
    /\ UNCHANGED winVars
    /\ UNCHANGED runVars
    /\ UNCHANGED teeVars
    /\ UNCHANGED callVars
    /\ UNCHANGED wordVars
    /\ UNCHANGED ctxVars

\* permutations(iterable, r): a later yield, or its end, on which the
\* loop of all_permutations takes the next r or ends
PermNext ==
    /\ pc = "next"
    /\ mode \in PermModes
    /\ LET res == PermStep(indices, cycles, r) IN
         IF res.done
           THEN /\ r' = r + 1
                /\ pc' = IF r + 1 > LastSize(Len(items)) THEN "done" ELSE "first"
                /\ UNCHANGED <<indices, cycles, eout>>
           ELSE /\ indices' = res.indices
                /\ cycles' = res.cycles
                /\ eout' = Append(eout, Pick(items, SubSeq(res.indices, 1, r)))
                /\ pc' = AfterYield
                /\ r' = r
    /\ UNCHANGED <<mode, src, n, err, items>>
    /\ UNCHANGED winVars
    /\ UNCHANGED runVars
    /\ UNCHANGED teeVars
    /\ UNCHANGED callVars
    /\ UNCHANGED wordVars
    /\ UNCHANGED ctxVars

-----------------------------------------------------------------------------
(* the word finder:                                                        *)
(*   {''.join(x) for x in all_permutations(letters)} & dictionary          *)

\* a comprehension that keeps only the candidate it saw last
AddCandidateLast(set, word) == {word}

\* the set comprehension takes one more candidate
AddCandidate(set, word) == set \cup {word}

\* the union the comment above the expression speaks of
IntersectUnion(candidates, words) == candidates \cup words

\* candidates & dictionary
Intersect(candidates, words) == candidates \cap words

\* the comprehension joins the tuple all_permutations has just yielded and
\* puts the string into the set
WordsCollect ==
    /\ pc = "collect"
    /\ mode = "word_finder"
    /\ cands' = AddCandidate(cands, Join(eout[Len(eout)]))
    /\ pc' = "next"
    /\ UNCHANGED <<mode, src, n, err, dict, result, finds>>
    /\ UNCHANGED winVars
    /\ UNCHANGED runVars
    /\ UNCHANGED enumVars
    /\ UNCHANGED teeVars
    /\ UNCHANGED callVars
    /\ UNCHANGED ctxVars

\* all_permutations has ended, the set is complete: & dictionary
WordsIntersect ==
    /\ pc = "done"
    /\ mode = "word_finder"
    /\ result' = Intersect(cands, dict)
    /\ pc' = "found"
    /\ UNCHANGED <<mode, src, n, err, dict, cands, finds>>
    /\ UNCHANGED winVars
    /\ UNCHANGED runVars
    /\ UNCHANGED enumVars
    /\ UNCHANGED teeVars
    /\ UNCHANGED callVars
    /\ UNCHANGED ctxVars

\* the caller, having consumed the generator of one call, calls the same
\* enumerator again on the same input object; the locals of the first call
\* (r, indices, cycles, the list) are what that call left behind
CallAgain ==
    /\ pc = "done"
    /\ mode \in {"powerset", "all_permutations"}
    /\ calls < MaxCalls
    /\ first' = eout
    /\ eout' = <<>>
    /\ pc' = "call"
    /\ UNCHANGED <<mode, src, n, err, items, r, indices, cycles>>
    /\ UNCHANGED <<feed, single, spent, calls>>
    /\ UNCHANGED winVars
    /\ UNCHANGED runVars
    /\ UNCHANGED teeVars
    /\ UNCHANGED wordVars
    /\ UNCHANGED ctxVars

-----------------------------------------------------------------------------
(* the three definitions of find. A str is the sequence of its characters; *)
(* the result of find is a str built by Join, None, or an exception.       *)

\* str.islower(): no uppercase character and at least one cased character
IsLower(cs) ==
    /\ \E j \in 1..Len(cs) : cs[j] \in LowerChars
    /\ \A j \in 1..Len(cs) : cs[j] \notin UpperChars

\* str.isupper(): no lowercase character and at least one cased character
IsUpper(cs) ==
    /\ \E j \in 1..Len(cs) : cs[j] \in UpperChars
    /\ \A j \in 1..Len(cs) : cs[j] \notin LowerChars

\* s[a:b] for 0 <= a <= b: the slice is cut off at the end of s
Slice(s, a, b) == SubSeq(s, a + 1, IF b < Len(s) THEN b ELSE Len(s))

\* check[:3].islower() and check[4:].islower() and check[3:4].isupper()
Match(check) ==
    /\ IsLower(Slice(check, 0, 3))
    /\ IsLower(Slice(check, 4, Len(check)))
    /\ IsUpper(Slice(check, 3, 4))

None == [kind |-> "None", val |-> ""]
Returned(cs) == [kind |-> "str", val |-> Join(cs)]
Raised(exc) == [kind |-> "raise", val |-> exc]

\* the first candidate that matches, None when there is none
FirstMatch(candidates) ==
    LET hits == {j \in 1..Len(candidates) : Match(candidates[j])}
    IN  IF hits = {} THEN None
        ELSE Returned(candidates[CHOOSE j \in hits : \A q \in hits : j <= q])

\* find by slicing: for idx in xrange(len(s) - 6): check = s[idx:idx+7]
FindSlicing(s) ==
    FirstMatch([j \in 1..(Len(s) - 6) |-> Slice(s, j - 1, j - 1 + 7)])

\* pairwise(s, m) as one call, m >= 1: the stagger loop asks cursor m-1
\* for m-1 elements and raises StopIteration when s has fewer; the izip
\* then gives the windows up to the first cursor that ends
PairwiseCall(s, m) ==
    IF Len(s) < m - 1
      THEN [raised |-> TRUE, windows |-> <<>>]
      ELSE [raised |-> FALSE,
            windows |-> [j \in 1..(Len(s) - m + 1) |->
                           [q \in 1..m |-> s[j + q - 1]]]]

\* find over pairwise: map(''.join, pairwise(s, 7)) and the for loop, or
\* imap and next(..., None); pairwise is called in the body of find, a
\* plain function, so its StopIteration leaves find
FindPairwise(s) ==
    LET res == PairwiseCall(s, FindN)
    IN  IF res.raised THEN Raised("StopIteration") ELSE FirstMatch(res.windows)

\* the first definition of find is called
FindBySlicing ==
    /\ pc = "call"
    /\ mode = "find"
    /\ finds' = [finds EXCEPT ![1] = FindSlicing(src)]
    /\ pc' = "map"
    /\ UNCHANGED <<mode, src, n, err, dict, cands, result>>
    /\ UNCHANGED winVars
    /\ UNCHANGED runVars
    /\ UNCHANGED enumVars
    /\ UNCHANGED teeVars
    /\ UNCHANGED callVars
    /\ UNCHANGED ctxVars

\* the second definition of find is called
FindByMap ==
    /\ pc = "map"
    /\ finds' = [finds EXCEPT ![2] = FindPairwise(src)]
    /\ pc' = "imap"
    /\ UNCHANGED <<mode, src, n, err, dict, cands, result>>
    /\ UNCHANGED winVars
    /\ UNCHANGED runVars
    /\ UNCHANGED enumVars
    /\ UNCHANGED teeVars
    /\ UNCHANGED callVars
    /\ UNCHANGED ctxVars

\* the third definition of find is called
FindByImap ==
    /\ pc = "imap"
    /\ finds' = [finds EXCEPT ![3] = FindPairwise(src)]
    /\ pc' = "compared"
    /\ UNCHANGED <<mode, src, n, err, dict, cands, result>>
    /\ UNCHANGED winVars
    /\ UNCHANGED runVars
    /\ UNCHANGED enumVars
    /\ UNCHANGED teeVars
    /\ UNCHANGED callVars
    /\ UNCHANGED ctxVars

-----------------------------------------------------------------------------
(* the context managers: one step per set-up, body and exit. A step that   *)
(* can fail chooses its outcome; an exception raised inside the with block *)
(* is handed to the exits from the innermost outwards and is held in       *)
(* pending until the with statement is left.                               *)

\* connectioncontext, set-up: with connect(*args) as conn
ConnectionEnter ==
    /\ pc = "call"
    /\ mode = "with_db"
    /\ \E ok \in BOOLEAN :
         IF ok THEN /\ conn' = "open"
                    /\ pc' = "cursorcontext"
                    /\ UNCHANGED <<err, pending>>
               ELSE /\ conn' = conn
                    /\ pc' = "left"
                    /\ err' = "OperationalError"
                    /\ pending' = pending
    /\ UNCHANGED <<mode, cursor, table>>
    /\ UNCHANGED envVars
    /\ UNCHANGED seqVars

\* cursorcontext, set-up: cursor = conn.cursor(); when it fails the with
\* statement hands the exception to the exit of connectioncontext
CursorEnter ==
    /\ pc = "cursorcontext"
    /\ \E ok \in BOOLEAN :
         IF ok THEN /\ cursor' = "open"
                    /\ pc' = "tablecontext"
                    /\ pending' = pending
               ELSE /\ cursor' = cursor
                    /\ pc' = "connection_exit"
                    /\ pending' = "OperationalError"
    /\ UNCHANGED <<mode, err, conn, table>>
    /\ UNCHANGED envVars
    /\ UNCHANGED seqVars

\* tablecontext, set-up: DROP TABLE (an OperationalError for a missing
\* table is passed over), then CREATE TABLE; when that fails the exits of
\* cursorcontext and connectioncontext get the exception
TableEnter ==
    /\ pc = "tablecontext"
    /\ \E ok \in BOOLEAN :
         IF ok THEN /\ table' = "created"
                    /\ pc' = "body"
                    /\ pending' = pending
               ELSE /\ table' = "absent"
                    /\ pc' = "cursor_exit"
                    /\ pending' = "OperationalError"
    /\ UNCHANGED <<mode, err, conn, cursor>>
    /\ UNCHANGED envVars
    /\ UNCHANGED seqVars

\* the first exit that runs when the body of the with statement is left
FirstExit(m) == IF m = "with_db" THEN "table_exit" ELSE "exit"

\* the body of the with statement: it ends normally or raises
Body ==
    /\ pc = "body"
    /\ \E ok \in BOOLEAN :
         pending' = IF ok THEN "none" ELSE "AssertionError"
    /\ pc' = FirstExit(mode)
    /\ UNCHANGED <<mode, err>>
    /\ UNCHANGED dbVars
    /\ UNCHANGED envVars
    /\ UNCHANGED seqVars

\* tablecontext, exit: the generator is resumed after its yield and drops
\* the table; an exception is thrown into it at the yield, where nothing
\* catches it, and the DROP TABLE after the yield is not run
TableExit ==
    /\ pc = "table_exit"
    /\ table' = IF pending = "none" THEN "absent" ELSE table
    /\ pc' = "cursor_exit"
    /\ UNCHANGED <<mode, err, conn, cursor, pending>>
    /\ UNCHANGED envVars
    /\ UNCHANGED seqVars

\* cursorcontext, exit: finally: cursor.close()
CursorExit ==
    /\ pc = "cursor_exit"
    /\ cursor' = "closed"
    /\ pc' = "connection_exit"
    /\ UNCHANGED <<mode, err, conn, table, pending>>
    /\ UNCHANGED envVars
    /\ UNCHANGED seqVars

\* connectioncontext, exit: the with of the connection commits and the
\* else branch closes it; on an exception the with of the connection rolls
\* back, "except: raise" raises it again and the else branch is skipped
ConnectionExit ==
    /\ pc = "connection_exit"
    /\ conn' = IF pending = "none" THEN "closed" ELSE conn
    /\ err' = pending
    /\ pc' = "left"
    /\ UNCHANGED <<mode, cursor, table, pending>>
    /\ UNCHANGED envVars
    /\ UNCHANGED seqVars

\* getlocale(): the setting of LC_CTYPE
GetLocale(l) == l[1]

\* setlocale(LC_ALL, name): every category gets the name
SetLocaleAll(name) == <<name, name>>

\* localecontext, set-up: old = getlocale(); setlocale(LC_ALL, locale),
\* which raises locale.Error for a locale the system does not have
LocaleEnter ==
    /\ pc = "call"
    /\ mode = "with_locale"
    /\ old' = GetLocale(locale)
    /\ \E ok \in BOOLEAN :
         IF ok THEN /\ locale' = SetLocaleAll(wanted)
                    /\ pc' = "body"
                    /\ err' = err
               ELSE /\ locale' = locale
                    /\ pc' = "left"
                    /\ err' = "Error"
    /\ UNCHANGED <<mode, sysout, wanted, pending>>
    /\ UNCHANGED dbVars
    /\ UNCHANGED seqVars

\* localecontext, exit: setlocale(LC_ALL, old) after the yield; an
\* exception is thrown into the generator at the yield, where nothing
\* catches it, and the setlocale after the yield is not run
LocaleExit ==
    /\ pc = "exit"
    /\ mode = "with_locale"
    /\ locale' = IF pending = "none" THEN SetLocaleAll(old) ELSE locale
    /\ err' = pending
    /\ pc' = "left"
    /\ UNCHANGED <<mode, sysout, wanted, old, pending>>
    /\ UNCHANGED dbVars
    /\ UNCHANGED seqVars

\* capture_print, set-up:
\*   sys.stdout, sys.stderr, old = stdout, stderr, (sys.stdout, sys.stderr)
CaptureEnter ==
    /\ pc = "call"
    /\ mode = "with_capture"
    /\ old' = sysout
    /\ sysout' = wanted
    /\ pc' = "body"
    /\ UNCHANGED <<mode, err, locale, wanted, pending>>
    /\ UNCHANGED dbVars
    /\ UNCHANGED seqVars

\* what a finally clause that restores the saved value leaves behind,
\* whatever the exception
Finally(now, saved, exc) == saved

\* capture_print, exit: finally: sys.stdout, sys.stderr = old
CaptureExit ==
    /\ pc = "exit"
    /\ mode = "with_capture"
    /\ sysout' = Finally(sysout, old, pending)
    /\ err' = pending
    /\ pc' = "left"
    /\ UNCHANGED <<mode, locale, wanted, old, pending>>
    /\ UNCHANGED dbVars
    /\ UNCHANGED seqVars

-----------------------------------------------------------------------------

Init ==
    /\ mode \in Modes
    /\ src \in (IF mode \in {"pairwise", "to_ranges"} THEN Sources
                ELSE IF mode = "tee" THEN TeeSources
                ELSE IF mode = "find" THEN FindInputs ELSE {<<>>})
    /\ n \in (IF mode = "pairwise" THEN (0 - 1)..MaxN
              ELSE IF mode = "to_ranges" THEN {PairN}
              ELSE IF mode = "tee" THEN 1..MaxN
              ELSE IF mode = "find" THEN {FindN} ELSE {0})
    /\ cur = <<>>
    /\ srcPos = 0
    /\ srcPulls = 0
    /\ i = 0
    /\ k = 0
    /\ win = <<>>
    /\ out = <<>>
    /\ buffer = <<>>
    /\ x = 0
    /\ y = 0
    /\ bound = FALSE
    /\ runs = <<>>
    /\ tokens = <<>>
    /\ items = <<>>
    /\ r = 0
    /\ indices = <<>>
    /\ cycles = <<>>
    /\ eout = <<>>
    /\ pc = "call"
    /\ err = "none"
    /\ got = <<>>
    /\ ended = <<>>
    /\ feed \in (IF mode \in {"powerset", "all_permutations"} THEN Inputs
                 ELSE IF mode = "word_finder" THEN {g[1] : g \in WordGames}
                 ELSE {<<>>})
    /\ single \in (IF mode \in {"powerset", "all_permutations"}
                   THEN BOOLEAN ELSE {FALSE})
    /\ spent = FALSE
    /\ calls = 0
    /\ first = <<>>
    /\ dict \in (IF mode = "word_finder"
                 THEN {g[2] : g \in {h \in WordGames : h[1] = feed}}
                 ELSE {{}})
    /\ cands = {}
    /\ result = {}
    /\ finds = <<None, None, None>>
    /\ stops = 0
    /\ thrown = "none"
    /\ conn = "none"
    /\ cursor = "none"
    /\ table \in (IF mode = "with_db" THEN {"absent", "stale"} ELSE {"absent"})
    /\ locale \in (IF mode = "with_locale" THEN LocaleNames \X LocaleNames
                   ELSE {<<"C", "C">>})
    /\ sysout \in (IF mode = "with_capture" THEN Streams
                   ELSE {<<"stdout", "stderr">>})
    /\ wanted \in (IF mode = "with_locale" THEN LocaleNames
                   ELSE IF mode = "with_capture" THEN Buffers ELSE {"none"})
    /\ old = "none"
    /\ pending = "none"

Next ==
    \/ Tee
    \/ StaggerAdvance
    \/ StaggerNextCursor
    \/ StaggerReturn
    \/ ZipPull
    \/ ZipYield
    \/ ZipEmpty
    \/ TeeCall
    \/ \E c \in DOMAIN cur : ReaderNext(c)
    \/ ContigBody
    \/ ContigTail
    \/ ToRangesYield
    \/ PullEnded
    \/ PowersetCall
    \/ CombFirst
    \/ CombNext
    \/ AllPermutationsCall
    \/ PermFirst
    \/ PermNext
    \/ CallAgain
    \/ WordsCollect
    \/ WordsIntersect
    \/ ConnectionEnter
    \/ CursorEnter
    \/ TableEnter
    \/ Body
    \/ TableExit
    \/ CursorExit
    \/ ConnectionExit
    \/ LocaleEnter
    \/ LocaleExit
    \/ CaptureEnter
    \/ CaptureExit
    \/ FindBySlicing
    \/ FindByMap
    \/ FindByImap

Spec == Init /\ [][Next]_vars

-----------------------------------------------------------------------------
(* Vocabulary of the properties *)

Done == pc = "done"
Ended == pc \in {"done", "raised"}

\* the window of n consecutive elements of s that starts at position j
WindowAt(s, j, m) == [q \in 1..m |-> s[j + q - 1]]

StrictlyIncreasing(s) == \A j \in 1..(Len(s) - 1) : s[j] < s[j + 1]

\* the precondition of contiguous / to_ranges, with at least two elements
SortedRun == /\ mode = "to_ranges"
             /\ Len(src) >= 2
             /\ StrictlyIncreasing(src)

RECURSIVE Flatten(_)
Flatten(ss) == IF ss = <<>> THEN <<>> ELSE Head(ss) \o Flatten(Tail(ss))

IsPrefix(a, b) == Len(a) <= Len(b) /\ a = SubSeq(b, 1, Len(a))

Range(s) == {s[j] : j \in 1..Len(s)}

Distinct(s) == \A a, b \in 1..Len(s) : a # b => s[a] # s[b]

\* the value of a character sequence read as a decimal numeral, read
\* independently of FormatD: the digits by Horner's rule
IsDigit(ch) == \E d \in 0..9 : DigitChars[d + 1] = ch
DigitVal(ch) == CHOOSE d \in 0..9 : DigitChars[d + 1] = ch

RECURSIVE Horner(_, _)
Horner(cs, acc) ==
    IF cs = <<>> THEN acc ELSE Horner(Tail(cs), 10 * acc + DigitVal(Head(cs)))

\* cs is the numeral of the natural number v, without leading zeros
IsNatNumeral(cs, v) ==
    /\ Len(cs) >= 1
    /\ \A j \in 1..Len(cs) : IsDigit(cs[j])
    /\ (Len(cs) > 1 => cs[1] # "0")
    /\ Horner(cs, 0) = v

\* cs is the decimal string of the integer v
IsDecimalOf(cs, v) ==
    IF v < 0 THEN /\ Len(cs) >= 2
                  /\ cs[1] = "-"
                  /\ IsNatNumeral(Tail(cs), 0 - v)
             ELSE IsNatNumeral(cs, v)

\* tok is the token of run: its decimal string, or '<first>-<last>'
IsTokenOf(tok, run) ==
    IF Len(run) = 1
      THEN IsDecimalOf(tok, run[1])
      ELSE \E p \in 2..(Len(tok) - 1) :
             /\ tok[p] = "-"
             /\ IsDecimalOf(SubSeq(tok, 1, p - 1), run[1])
             /\ IsDecimalOf(SubSeq(tok, p + 1, Len(tok)), run[Len(run)])

RECURSIVE Pow2(_)
Pow2(e) == IF e = 0 THEN 1 ELSE 2 * Pow2(e - 1)

\* L!/(L-size)!
RECURSIVE Falling(_, _)
Falling(L, size) == IF size = 0 THEN 1 ELSE (L - size + 1) * Falling(L, size - 1)

RECURSIVE SumFalling(_, _)
SumFalling(L, size) ==
    IF size = 0 THEN 0 ELSE Falling(L, size) + SumFalling(L, size - 1)

\* index tuples of a given size over the positions 0..L-1
IndexTuples(L, size) == [1..size -> 0..(L - 1)]
IncreasingTuples(L, size) ==
    {t \in IndexTuples(L, size) : \A a, b \in 1..size : a < b => t[a] < t[b]}
InjectiveTuples(L, size) ==
    {t \in IndexTuples(L, size) : \A a, b \in 1..size : a # b => t[a] # t[b]}

LexLess(a, b) ==
    \E p \in 1..Len(a) : a[p] < b[p] /\ \A q \in 1..(p - 1) : a[q] = b[q]

\* the tuples of S (all of one length) in lexicographic order
RECURSIVE SortLex(_)
SortLex(S) ==
    IF S = {} THEN <<>>
    ELSE LET least == CHOOSE a \in S : \A b \in S \ {a} : LexLess(a, b)
         IN  <<least>> \o SortLex(S \ {least})

PickAll(pool, ts) == [j \in 1..Len(ts) |-> Pick(pool, ts[j])]

\* the index tuples of every size in lexicographic order, for every
\* length of the pool up to the bound (they depend on the length only)
IncreasingSorted ==
    [L \in 0..MaxItems |-> [size \in 1..L |-> SortLex(IncreasingTuples(L, size))]]
InjectiveSorted ==
    [L \in 0..MaxItems |-> [size \in 1..L |-> SortLex(InjectiveTuples(L, size))]]

\* sizes 1..upto in ascending order, lexicographic inside one size
RECURSIVE SubsetOrder(_, _)
SubsetOrder(pool, upto) ==
    IF upto = 0 THEN <<>>
    ELSE SubsetOrder(pool, upto - 1)
           \o PickAll(pool, IncreasingSorted[Len(pool)][upto])

RECURSIVE ArrangementOrder(_, _)
ArrangementOrder(pool, upto) ==
    IF upto = 0 THEN <<>>
    ELSE ArrangementOrder(pool, upto - 1)
           \o PickAll(pool, InjectiveSorted[Len(pool)][upto])

-----------------------------------------------------------------------------
(* Properties *)

\* C1: for a source of length L and 1 <= n <= L, pairwise yields exactly
\* L-n+1 tuples, in order, the tuple at index i being (S[i], ..., S[i+n-1]):
\* what the consumer has received is always a prefix of that list, no error
\* is raised, and at the end it is the whole list.
C1_Windows ==
    (mode = "pairwise" /\ 1 <= n /\ n <= Len(src)) =>
        /\ err = "none"
        /\ Len(out) <= Len(src) - n + 1
        /\ \A j \in 1..Len(out) : out[j] = WindowAt(src, j, n)
        /\ (Done => Len(out) = Len(src) - n + 1)

C1_Witness ==
    /\ mode = "pairwise"
    /\ Done
    /\ n >= 2
    /\ n < Len(src)
    /\ Len(out) >= 2
    /\ src[1] # src[2]

\* C2: for every window size n > L (n > L+1 and the empty source included)
\* pairwise returns an empty sequence: zero tuples and no error.
C2_EmptyNoError ==
    (mode = "pairwise" /\ n > Len(src)) => (out = <<>> /\ err = "none")

\* C3: for a strictly increasing source with at least two elements the runs
\* are disjoint, in source order, and their concatenation is the source:
\* always a prefix of it, and the whole of it at the end, with no error.
C3_RunsPartition ==
    SortedRun =>
        /\ err = "none"
        /\ IsPrefix(Flatten(runs), src)
        /\ \A a, b \in 1..Len(runs) : a # b => Range(runs[a]) \cap Range(runs[b]) = {}
        /\ (Done => Flatten(runs) = src)
        /\ (Done /\ src = ExampleSrc =>
              runs = << <<1, 2, 3>>, <<5>>, <<10, 11, 12>>, <<17>> >>)

C3_Witness ==
    /\ SortedRun
    /\ Done
    /\ Len(src) = 3
    /\ Len(runs) = 2
    /\ Len(runs[1]) = 2

\* C4: for a strictly increasing source with at least two elements every
\* run is non-empty and internally contiguous (neighbours differ by exactly
\* 1), and maximal: from the last element of a run to the first of the
\* next the gap is greater than 1.
C4_RunsContiguousMaximal ==
    SortedRun =>
        /\ \A a \in 1..Len(runs) :
             /\ Len(runs[a]) >= 1
             /\ \A j \in 1..(Len(runs[a]) - 1) : runs[a][j + 1] = runs[a][j] + 1
        /\ \A a \in 1..(Len(runs) - 1) :
             runs[a + 1][1] - runs[a][Len(runs[a])] > 1

C4_Witness ==
    /\ SortedRun
    /\ Done
    /\ Len(runs) = 2
    /\ \E a \in 1..2 : Len(runs[a]) = 2
    /\ src # ExampleSrc

\* C5: for a source with exactly one element e, contiguous emits exactly
\* one run, [e], and ends normally; to_ranges emits exactly one token, the
\* decimal string of e.
C5_SingleElement ==
    (mode = "to_ranges" /\ Len(src) = 1 /\ Ended) =>
        /\ err = "none"
        /\ runs = <<src>>
        /\ Len(tokens) = 1
        /\ IsDecimalOf(tokens[1], src[1])

\* C6: for a strictly increasing source with at least two elements
\* to_ranges emits one token per run of contiguous, in the same order; the
\* token of a one-element run is the decimal string of the element, that of
\* a longer run is '<first>-<last>'.
C6_Tokens ==
    SortedRun =>
        /\ Len(tokens) <= Len(runs)
        /\ Len(runs) <= Len(tokens) + 1
        /\ \A j \in 1..Len(tokens) : IsTokenOf(tokens[j], runs[j])
        /\ (Done => Len(tokens) = Len(runs))
        /\ (Done /\ src = ExampleSrc =>
              tokens = << <<"1", "-", "3">>, <<"5">>,
                          <<"1", "0", "-", "1", "2">>, <<"1", "7">> >>)

C6_Witness ==
    /\ SortedRun
    /\ Done
    /\ Len(tokens) >= 2
    /\ \E j \in 1..Len(runs) : Len(runs[j]) = 1
    /\ \E j \in 1..Len(runs) : Len(runs[j]) > 2
    /\ \E j \in 1..Len(src) : src[j] < 0
    /\ \E j \in 1..Len(src) : src[j] > 9

\* C7: for an input of L distinct elements powerset emits exactly 2^L - 1
\* subsets, no two with the same content, none empty, with sizes covering
\* exactly 1..L (nothing for L = 0).
C7_PowersetCount ==
    (mode = "powerset" /\ Distinct(items)) =>
        /\ \A j \in 1..Len(eout) :
             /\ Len(eout[j]) >= 1
             /\ Range(eout[j]) \subseteq Range(items)
             /\ Cardinality(Range(eout[j])) = Len(eout[j])
        /\ \A a, b \in 1..Len(eout) : a # b => Range(eout[a]) # Range(eout[b])
        /\ (Done => /\ Len(eout) = Pow2(Len(items)) - 1
                    /\ {Len(eout[j]) : j \in 1..Len(eout)} = 1..Len(items))

C7_Witness ==
    /\ mode = "powerset"
    /\ Distinct(items)
    /\ Done
    /\ Len(items) = 3
    /\ Len(eout) = 7

\* C8: powerset emits subsets grouped by ascending size 1..L, inside one
\* size in lexicographic order of the strictly increasing index tuples,
\* each subset in input order (never sorted by value).
C8_PowersetOrder ==
    mode = "powerset" =>
        /\ IsPrefix(eout, SubsetOrder(items, Len(items)))
        /\ (Done => eout = SubsetOrder(items, Len(items)))
        /\ (Done /\ items = <<"a", "b", "c">> =>
              eout = << <<"a">>, <<"b">>, <<"c">>, <<"a", "b">>, <<"a", "c">>,
                        <<"b", "c">>, <<"a", "b", "c">> >>)

C8_Witness ==
    /\ mode = "powerset"
    /\ Done
    /\ items = <<"c", "a", "b">>
    /\ eout[4] = <<"c", "a">>
    /\ eout[7] = <<"c", "a", "b">>

\* C9: for an input of L distinct elements all_permutations emits exactly
\* the sum over r = 1..L of L!/(L-r)! sequences, each an arrangement without
\* repetition of r input positions, and every such arrangement exactly once.
C9_PermutationsCount ==
    (mode = "all_permutations" /\ Distinct(items)) =>
        /\ \A j \in 1..Len(eout) :
             /\ Len(eout[j]) \in 1..Len(items)
             /\ Range(eout[j]) \subseteq Range(items)
             /\ Distinct(eout[j])
        /\ Distinct(eout)
        /\ (Done =>
              /\ Len(eout) = SumFalling(Len(items), Len(items))
              /\ Range(eout) =
                   UNION {{Pick(items, t) : t \in InjectiveTuples(Len(items), size)} :
                            size \in 1..Len(items)})

C9_Witness ==
    /\ mode = "all_permutations"
    /\ Distinct(items)
    /\ Done
    /\ Len(items) = 3
    /\ Len(eout) = 15

\* C10: all_permutations emits arrangements grouped by ascending size
\* 1..L, inside one size in lexicographic order of the index tuples.
C10_PermutationsOrder ==
    mode = "all_permutations" =>
        /\ IsPrefix(eout, ArrangementOrder(items, Len(items)))
        /\ (Done => eout = ArrangementOrder(items, Len(items)))
        /\ (Done /\ items = <<"a", "b", "c">> =>
              eout = << <<"a">>, <<"b">>, <<"c">>,
                        <<"a", "b">>, <<"a", "c">>, <<"b", "a">>,
                        <<"b", "c">>, <<"c", "a">>, <<"c", "b">>,
                        <<"a", "b", "c">>, <<"a", "c", "b">>, <<"b", "a", "c">>,
                        <<"b", "c", "a">>, <<"c", "a", "b">>, <<"c", "b", "a">> >>)

C10_Witness ==
    /\ mode = "all_permutations"
    /\ Done
    /\ items = <<"b", "a", "c">>
    /\ Len(eout) = 15
    /\ eout[4] = <<"b", "a">>

\* the least position among the cursors (the source position when there
\* is no cursor)
MinCur == IF DOMAIN cur = {} THEN srcPos
          ELSE CHOOSE v \in {cur[c] : c \in DOMAIN cur} :
                 \A c \in DOMAIN cur : v <= cur[c]

\* source elements read by some cursor and not yet by every cursor
Buffered == srcPos - MinCur

\* C13: while the windows of pairwise(source, n) are consumed (up to the
\* end of the sequence, before any pull that follows it) the source
\* is advanced at most once per element, whatever n is, and when they are
\* consumed to the end over a source of length L >= n-1 the source has been
\* pulled exactly L times plus the one pull that signals its end.
C13_SinglePass ==
    (mode = "pairwise" /\ stops = 0) =>
        /\ srcPos <= Len(src)
        /\ srcPulls <= srcPos + 1
        /\ (Done /\ Len(src) >= n - 1 =>
              srcPos = Len(src) /\ srcPulls = Len(src) + 1)

\* the same for the window sizes that tee gives at least one cursor
C13_SinglePassPositiveN ==
    (mode = "pairwise" /\ n >= 1 /\ stops = 0) =>
        /\ srcPos <= Len(src)
        /\ srcPulls <= srcPos + 1
        /\ (Done /\ Len(src) >= n - 1 =>
              srcPos = Len(src) /\ srcPulls = Len(src) + 1)

\* C14: at every point while pairwise(source, n) is constructed or
\* consumed (tee has not refused n), the source elements read by some
\* cursor but not yet by every cursor are at most n.
C14_BufferBound ==
    (mode = "pairwise" /\ pc # "call" /\ err # "ValueError") => Buffered <= n

C14_Witness ==
    /\ mode = "pairwise"
    /\ pc = "zip"
    /\ n = 3
    /\ Buffered = 2
    /\ Len(out) >= 1
    /\ srcPos < Len(src)

\* C16: a window size n < 1 (0 or negative) makes pairwise fail with an
\* invalid-input error; it never returns a sequence, empty or not.
C16_RejectsNonPositive ==
    (mode = "pairwise" /\ n < 1 /\ pc # "call") =>
        (pc = "raised" /\ err # "none")


\* the readers of the tee demonstration hold their cursors
Reading == mode = "tee" /\ pc = "readers"

\* C15: the cursors of tee are independent: under every interleaving of
\* pulls, one cursor abandoned part-way or drained first included, what a
\* cursor has yielded is a prefix of the source in source order, it is the
\* full source once the cursor has ended, and a pull on one cursor changes
\* neither the position nor the yield of another.
C15_TeeIndependent ==
    /\ [](Reading =>
            \A c \in DOMAIN cur :
               /\ IsPrefix(got[c], src)
               /\ cur[c] = Len(got[c])
               /\ (ended[c] > 0 => got[c] = src))
    /\ [][Reading =>
            \A c, d \in DOMAIN cur :
               (c # d /\ (cur'[c] # cur[c] \/ ended'[c] # ended[c])) =>
                 (cur'[d] = cur[d] /\ got'[d] = got[d] /\ ended'[d] = ended[d])]_vars

C15_Witness ==
    /\ Reading
    /\ Len(src) >= 3
    /\ \E c, d \in DOMAIN cur :
         /\ ended[c] > 0
         /\ got[c] = src
         /\ ended[d] = 0
         /\ Len(got[d]) = 1
         /\ c < d


Enumerating == mode \in {"powerset", "all_permutations"}

\* what an enumerator yields, in order, for a list of elements
Enumeration(pool) ==
    IF mode = "powerset" THEN SubsetOrder(pool, Len(pool))
                         ELSE ArrangementOrder(pool, Len(pool))

\* C17 as claimed: powerset and all_permutations reject a single-pass
\* input (a generator) with an invalid-input failure instead of
\* enumerating it.
C17_RejectsSinglePass ==
    (Enumerating /\ single /\ calls >= 1) => (err # "none" /\ eout = <<>>)

\* C17 as amended: powerset and all_permutations accept a single-pass
\* input: list(iterable) consumes it, no failure is raised, and the first
\* call enumerates its elements exactly as it would those of a list.
C17_ConsumesSinglePass ==
    (Enumerating /\ single /\ calls = 1) =>
        /\ err = "none"
        /\ spent
        /\ items = feed
        /\ IsPrefix(eout, Enumeration(feed))
        /\ (Done => eout = Enumeration(feed))

C17_Witness ==
    /\ Enumerating
    /\ single
    /\ calls = 1
    /\ Done
    /\ Len(feed) = 3
    /\ Len(eout) >= 7

\* C20 as claimed: calling powerset or all_permutations twice on the same
\* finite input produces the same sequences in the same order.
C20_SameTwice ==
    (Enumerating /\ calls >= 2 /\ Done) => eout = first

\* C20 as amended: calling powerset or all_permutations twice on the same
\* re-traversable finite input (list, tuple, string) produces the same
\* sequences in the same order, whatever the first call left behind; a
\* single-pass input is consumed by the first call, and a second call on
\* the same object yields nothing.
C20_SameTwiceReiterable ==
    (Enumerating /\ calls >= 2) =>
        IF single
          THEN eout = <<>>
          ELSE /\ IsPrefix(eout, first)
               /\ (Done => eout = first)
               /\ first = Enumeration(feed)

C20_Witness ==
    /\ Enumerating
    /\ ~single
    /\ calls = 2
    /\ Done
    /\ Len(feed) = 3
    /\ eout = first
    /\ Len(eout) >= 7


WordFinding == mode = "word_finder"
Found == WordFinding /\ pc = "found"

\* the characters of the words of the dictionaries, written out
Spelling(word) ==
    CASE word = "" -> <<>>
      [] word = "a" -> <<"a">>
      [] word = "b" -> <<"b">>
      [] word = "c" -> <<"c">>
      [] word = "d" -> <<"d">>
      [] word = "aa" -> <<"a", "a">>
      [] word = "ab" -> <<"a", "b">>
      [] word = "abc" -> <<"a", "b", "c">>
      [] word = "ape" -> <<"a", "p", "e">>
      [] word = "cat" -> <<"c", "a", "t">>
      [] word = "dog" -> <<"d", "o", "g">>
      [] word = "ball" -> <<"b", "a", "l", "l">>
      [] word = "pale" -> <<"p", "a", "l", "e">>
      [] word = "leap" -> <<"l", "e", "a", "p">>
      [] word = "apple" -> <<"a", "p", "p", "l", "e">>
      [] word = "apples" -> <<"a", "p", "p", "l", "e", "s">>
      [] OTHER -> <<"?">>

\* how often ch occurs in the sequence s
Count(ch, s) == Cardinality({j \in 1..Len(s) : s[j] = ch})

\* the characters cs can be taken from the bag of letters, each letter
\* at most as often as the bag holds it
FromBag(cs, bag) == \A ch \in Range(cs) : Count(ch, cs) <= Count(ch, bag)

\* cs is the arrangement of some 1..L distinct positions of the letters
IsArrangementOf(cs, bag) ==
    /\ Len(cs) \in 1..Len(bag)
    /\ \E t \in InjectiveTuples(Len(bag), Len(cs)) : Pick(bag, t) = cs

\* the candidates of all_permutations tested one at a time against the
\* dictionary, the hits kept
LazyHits(tuples) ==
    {Join(tuples[j]) : j \in {q \in 1..Len(tuples) : Join(tuples[q]) \in dict}}

C18_LazyEquivalent ==
    Found => result = LazyHits(eout)

C18_Witness ==
    /\ Found
    /\ Len(feed) = 3
    /\ Cardinality(result) >= 2
    /\ Cardinality(dict \ result) >= 2
    /\ Cardinality(cands \ result) >= 2

Over == mode \in {"pairwise", "to_ranges"} /\ (pc = "done" \/ stops > 0)

\* C21: once a lazy sequence has signalled its end, every later pull on it
\* signals the end again and yields nothing. For a cursor of tee and the
\* generator under it: what the cursor has yielded and the position of the
\* source never change again. For the output of pairwise, of contiguous
\* and of to_ranges: a later pull raises nothing, never assembles a window,
\* never reaches a yield, and windows, runs and tokens never change again.
C21_EndIsFinal ==
    /\ [][Reading =>
            \A c \in DOMAIN cur :
               ended[c] > 0 => (got'[c] = got[c] /\ ended'[c] >= ended[c])]_vars
    /\ [][srcPulls > srcPos => srcPos' = srcPos]_vars
    /\ [](Over => /\ err = "none"
                  /\ pc \in {"zip", "done"}
                  /\ ~(n > 0 /\ Len(win) = n))
    /\ [][Over => (Over' /\ out' = out /\ runs' = runs /\ tokens' = tokens)]_vars

C21_Witness ==
    /\ mode = "pairwise"
    /\ pc = "done"
    /\ stops = 2
    /\ n = 3
    /\ Len(out) = 1
    /\ \A c \in DOMAIN cur : cur[c] = Len(src)

C21_WitnessRanges ==
    /\ mode = "to_ranges"
    /\ pc = "done"
    /\ stops >= 1
    /\ Len(runs) >= 2

\* a stage of the pipeline of to_ranges has raised
Failed == mode = "to_ranges" /\ thrown # "none"

\* C22: in the pipeline pairwise -> contiguous -> to_ranges a failure
\* raised by a stage reaches the caller of to_ranges as that failure, at
\* the pull that caused it: it is never turned into a normal end of the
\* sequence, and no run or token is emitted after it.
C22_FailurePropagates ==
    /\ [](Failed => (pc = "raised" /\ err = thrown))
    /\ [][Failed => (runs' = runs /\ tokens' = tokens)]_vars

\* the failure of contiguous itself does reach the caller of to_ranges,
\* and nothing is emitted after any failure
C22_OwnFailurePropagates ==
    (Failed /\ thrown # "StopIteration") =>
        (pc = "raised" /\ err = thrown /\ runs = <<>> /\ tokens = <<>>)

\* the with statement has been left, normally or by an exception
Left == pc = "left"

\* C23: with connectioncontext, cursorcontext and tablecontext nested
\* around a body, when the with statement is left the table it made is
\* dropped, the cursor it made is closed and the connection it made is
\* closed, whether all went well or a step of the set-up or the body failed.
C23_RollsBack ==
    (mode = "with_db" /\ Left) =>
        /\ table # "created"
        /\ cursor # "open"
        /\ conn # "open"

\* what the code does guarantee on every path: the cursor is closed; and
\* on the path without failure, all three
C23_CursorClosed ==
    (mode = "with_db" /\ Left) =>
        /\ cursor # "open"
        /\ (err = "none" => (table = "absent" /\ conn = "closed"))

\* C24: after a with localecontext(...) block is left, whether the body
\* ended normally or by raising, the process-wide locale is the one that
\* was saved at entry; and after a with capture_print(...) block is left,
\* sys.stdout and sys.stderr are the saved ones.
C24_Restored ==
    /\ (mode = "with_locale" /\ Left) => GetLocale(locale) = old
    /\ (mode = "with_capture" /\ Left) => sysout = old

\* what the code does guarantee: capture_print restores on every path,
\* localecontext on the path without an exception from the body
C24_RestoredUnlessRaised ==
    /\ (mode = "with_locale" /\ Left /\ pending = "none") =>
          GetLocale(locale) = old
    /\ (mode = "with_capture" /\ Left) =>
          (sysout = old /\ sysout \in Streams)

\* on the normal path every category is set to what LC_CTYPE had at entry
C24_AllCategories ==
    (mode = "with_locale" /\ Left /\ err = "none") => locale = SetLocaleAll(old)

\* the three definitions of find have been called on the string
Compared == mode = "find" /\ pc = "compared"

\* a window of three lowercase letters, an uppercase letter and three
\* lowercase letters
IsPattern(w) ==
    /\ Len(w) = FindN
    /\ \A j \in {1, 2, 3, 5, 6, 7} : w[j] \in LowerChars
    /\ w[4] \in UpperChars

\* the first window of 7 consecutive characters of s with the pattern
FirstPattern(s) ==
    LET at == {j \in 1..(Len(s) - FindN + 1) : IsPattern(WindowAt(s, j, FindN))}
    IN  IF at = {} THEN None
        ELSE Returned(WindowAt(s, CHOOSE j \in at : \A q \in at : j <= q, FindN))

\* C25: the three definitions of find return the same result for every
\* string, strings shorter than 7 characters and strings without a match
\* (result None) included: the first window of 7 consecutive characters
\* that is 3 lowercase, 1 uppercase, 3 lowercase.
C25_FindsAgree ==
    Compared =>
        /\ finds[1] = finds[2]
        /\ finds[2] = finds[3]
        /\ finds[1] = FirstPattern(src)

\* from 6 characters on the three definitions do agree
C25_FindsAgreeFromSix ==
    (Compared /\ Len(src) >= FindN - 1) =>
        /\ finds[1] = finds[2]
        /\ finds[2] = finds[3]
        /\ (Range(src) \subseteq LowerChars \cup UpperChars =>
              finds[1] = FirstPattern(src))
        /\ (src = TutorialString => finds[1] = Returned(<<"jasJjas">>))

\* the call PairwiseCall stands for is the call the steps of pairwise make
PairwiseCallAgrees ==
    (mode = "pairwise" /\ n >= 1 /\ Ended) =>
        /\ PairwiseCall(src, n).raised = (err = "StopIteration")
        /\ PairwiseCall(src, n).windows = out

\* C26: on an empty source contiguous emits zero runs and ends normally,
\* and to_ranges emits zero tokens and ends normally; neither raises:
\* the caller sees no exception, nothing is ever emitted, control never
\* reaches the statements of contiguous that read x or y, and until the
\* end is signalled a next step is always there.
C26_EmptySource ==
    (mode = "to_ranges" /\ src = <<>>) =>
        /\ err = "none"
        /\ runs = <<>>
        /\ tokens = <<>>
        /\ pc \in {"call", "stagger", "done"}
        /\ (pc # "done" => ENABLED Next)

C26_Witness ==
    /\ mode = "to_ranges"
    /\ src = <<>>
    /\ pc = "done"
    /\ srcPulls = 1
    /\ stops = 1

\* the first call of an enumerator on its input has run to its end
Enumerated ==
    \/ mode \in {"powerset", "all_permutations"} /\ calls = 1 /\ Done
    \/ Found

\* C27: powerset and all_permutations treat equal values at different
\* positions as different elements: for an input of length L, repeated
\* values or not, they emit 2^L - 1 subsets and the sum over r of
\* L!/(L-r)! arrangements, one per tuple of positions, so that with a
\* repeated value the same content is emitted more than once
\* (all_permutations('aa') emits 'a', 'a', 'aa', 'aa'); only the set of the
\* word finder collapses them.
C27_ByPosition ==
    Enumerated =>
        /\ (mode = "powerset" =>
              /\ Len(eout) = Pow2(Len(feed)) - 1
              /\ eout = SubsetOrder(feed, Len(feed)))
        /\ (mode \in PermModes =>
              /\ Len(eout) = SumFalling(Len(feed), Len(feed))
              /\ \A j \in 1..Len(eout) : IsArrangementOf(eout[j], feed))
        /\ (~Distinct(feed) => ~Distinct(eout))
        /\ (mode = "all_permutations" /\ feed = <<"a", "a">> =>
              eout = << <<"a">>, <<"a">>, <<"a", "a">>, <<"a", "a">> >>)
        /\ (mode = "powerset" /\ feed = <<"a", "a">> =>
              eout = << <<"a">>, <<"a">>, <<"a", "a">> >>)
        /\ (Found =>
              /\ cands = {Join(eout[j]) : j \in 1..Len(eout)}
              /\ (~Distinct(feed) => Cardinality(cands) < Len(eout)))

C27_Witness ==
    /\ mode = "all_permutations"
    /\ calls = 1
    /\ Done
    /\ feed = <<"a", "b", "a">>
    /\ Len(eout) = 15
    /\ eout[1] = eout[3]
    /\ eout[10] = <<"a", "b", "a">>

C27_WitnessWords ==
    /\ Found
    /\ feed = <<"a", "a", "b">>
    /\ Len(eout) = 15
    /\ Cardinality(cands) = 8

\* pairwise has returned and its windows are being requested, up to the
\* first end of the sequence
Windowing == mode = "pairwise" /\ stops = 0 /\ pc \in {"zip", "done"}

\* C28: pairwise staggers eagerly and pulls in index order. When it
\* returns, before any window is requested, cursor i has been advanced by
\* exactly i elements for every i in 0..n-1, and the source by n-1.
\* Afterwards a window request pulls one element from each cursor in
\* index order: while the window with number Len(out)+1 is assembled the
\* cursors below Len(win) are one element further than the others. The
\* output ends at the first cursor that is exhausted: the pull that ends
\* it is on the cursor whose turn it is, that cursor is at the end of the
\* source, and no cursor after it is pulled.
C28_EagerStagger ==
    /\ [](Windowing /\ pc = "zip" /\ out = <<>> /\ win = <<>> =>
            /\ \A c \in DOMAIN cur : cur[c] = c
            /\ (n >= 1 => srcPos = n - 1))
    /\ [](Windowing /\ pc = "zip" =>
            \A c \in DOMAIN cur :
               cur[c] = c + Len(out) + (IF c < Len(win) THEN 1 ELSE 0))
    /\ [][mode = "pairwise" /\ pc = "stagger" /\ pc' = "zip" =>
            (out = <<>> /\ cur' = cur /\ \A c \in DOMAIN cur : cur[c] = c)]_vars
    /\ [][Windowing /\ pc = "zip" /\ pc' = "done" /\ n >= 1 =>
            /\ cur' = cur
            /\ out' = out
            /\ cur[Len(win)] = Len(src)
            /\ \A c \in DOMAIN cur : c < Len(win) => cur[c] < Len(src) + 1]_vars

C28_Witness ==
    /\ Windowing
    /\ pc = "zip"
    /\ n = 3
    /\ out = <<>>
    /\ win = <<>>
    /\ srcPos = 2
    /\ Len(src) = 3

C28_WitnessEnd ==
    /\ Windowing
    /\ pc = "done"
    /\ n = 3
    /\ Len(out) = 1
    /\ cur = (0 :> 2 @@ 1 :> 3 @@ 2 :> 3)

\* the position in the source of the last element of run a
RECURSIVE RunEnd(_, _)
RunEnd(rs, a) == IF a = 0 THEN 0 ELSE RunEnd(rs, a - 1) + Len(rs[a])

\* the positions after which a run ends and another one starts
Boundaries(rs) == {RunEnd(rs, a) : a \in 1..(Len(rs) - 1)}

\* the positions of the elements whose successor is more than 1 greater
Jumps(s) == {j \in 1..(Len(s) - 1) : s[j + 1] - s[j] > 1}

\* C29: contiguous never checks or rejects the ordering of its input: for
\* every integer sequence with at least two elements, sorted or not, it
\* raises no error, no run is empty, the concatenation of the runs is the
\* input (always a prefix of it, the whole at the end), and a run boundary
\* is placed exactly after each element x whose successor y has
\* y - x > 1, and nowhere else.
C29_Unchecked ==
    (mode = "to_ranges" /\ Len(src) >= 2) =>
        /\ err = "none"
        /\ thrown = "none"
        /\ \A a \in 1..Len(runs) : Len(runs[a]) >= 1
        /\ IsPrefix(Flatten(runs), src)
        /\ Boundaries(runs) \subseteq Jumps(src)
        /\ (Done => /\ Flatten(runs) = src
                    /\ Boundaries(runs) = Jumps(src))

C29_Witness ==
    /\ mode = "to_ranges"
    /\ Done
    /\ src = <<3, 3, 1>>

C29_WitnessJump ==
    /\ mode = "to_ranges"
    /\ Done
    /\ src = <<4, 0, 2>>
    /\ runs = << <<4, 0>>, <<2>> >>

\* contiguous has just emitted a run at its yield in the loop / after it
EmittedInLoop == mode = "to_ranges" /\ pc = "yielded"
EmittedLast == mode = "to_ranges" /\ pc = "yieldedlast"

\* C30: contiguous is lazy with one element of lookahead. At the moment
\* it emits a run that is not the last, the source has been advanced to
\* exactly one element past the last element of that run (that element is
\* y, a jump away) and has not been asked for more, however long the rest
\* of the source is; the final run is emitted only when the source has
\* signalled its end; and a run that has been emitted is never changed by
\* a later pull: runs are only ever added at the end.
C30_Lookahead ==
    /\ [](EmittedInLoop =>
            /\ srcPos = RunEnd(runs, Len(runs)) + 1
            /\ srcPulls = srcPos
            /\ y = src[srcPos]
            /\ x = src[srcPos - 1]
            /\ IsJump(x, y))
    /\ [](EmittedLast =>
            /\ RunEnd(runs, Len(runs)) = Len(src)
            /\ srcPos = Len(src)
            /\ srcPulls = Len(src) + 1)
    /\ [][mode = "to_ranges" =>
            /\ IsPrefix(runs, runs')
            /\ Len(runs') <= Len(runs) + 1
            /\ (runs' # runs => pc' \in {"yielded", "yieldedlast"})]_vars

C30_Witness ==
    /\ EmittedInLoop
    /\ src = ExampleSrc
    /\ runs = << <<1, 2, 3>>, <<5>> >>
    /\ srcPos = 5
    /\ y = 10

C30_WitnessLast ==
    /\ EmittedLast
    /\ src = ExampleSrc
    /\ Len(runs) = 4


=============================================================================
